---- MODULE Spec2Model ----
(***************************************************************************)
(* Booking concurrency engine of scheduler_platform                        *)
(* (src/apps/scheduling: services.py, models.py, views.py).                *)
(*                                                                         *)
(* Request-serving processes run create_booking and the booking_cancel     *)
(* view against the shared Booking table (PostgreSQL, one unique           *)
(* constraint) and the shared Redis lock namespace (django_redis           *)
(* cache.lock, i.e. a redis-py Lock used as a context manager).            *)
(*                                                                         *)
(* Instants are integers: milliseconds since 00:00 UTC of day 0.           *)
(* Wall-clock time is not a variable: the lock's hold expiry and the       *)
(* waiter's timeout are actions that may fire whenever the lock is held,   *)
(* which covers every duration a database round trip can take.             *)
(***************************************************************************)
EXTENDS Integers, FiniteSets, Sequences, TLC

\* ------------------------------------------------------------------ bounds
\* Requests (create or cancel) started in one run, over all processes.
MaxCalls == 2

\* ------------------------------------------------------- program constants
\* services.py:125  `>= 5`
DailyLimit == 5
\* settings.py:212  TIME_ZONE = Europe/Berlin (CET, UTC+1 in winter), in ms
TzOffsetMs == 3600000

\* ------------------------------------------------------------- the universe
Procs == {"p1", "p2"}
Users == {"ann", "bob", "eve"}
\* the users that issue create_booking calls
Bookers == {"ann", "bob"}
Resources == {"r1", "r2"}
\* Resource.owner
owner == [r \in Resources |-> IF r = "r1" THEN "bob" ELSE "eve"]

\* 22:00 UTC of day 0: 23:00 local, local day 0
T0 == 22 * 3600000
\* 23:00 UTC of day 0: 00:00 local, local day 1 (UTC day 0)
T1 == 23 * 3600000
\* half a second after T1: another instant within the same second
T1s == T1 + 500
\* 00:30 UTC of day 1: 01:30 local, local day 1
T2 == 24 * 3600000 + 1800000
Instants == {T0, T1, T1s, T2}
\* the instants create_booking is called with (T0 is booked in the seed only)
RequestInstants == {T1, T1s, T2}

NoOwner == "-"
NoBooking == [id |-> 0, user |-> "-", resource |-> "-", starts_at_utc |-> 0]
NoReq == [op |-> "none", user |-> "-", resource |-> "-", starts_at_utc |-> 0]
NoExc == [type |-> "none", msg |-> ""]
NoResponse == [status |-> "none", message |-> ""]
NoListing == [resource |-> "-", days_ahead |-> 0, out |-> <<>>]
NoEnumeration == [day_local |-> 0, start_t |-> 0, end_t |-> 0, out |-> <<>>]

VARIABLES
    bookings,   \* the Booking table: a set of rows
    nextId,     \* next fresh Booking.id (uuid4: never repeats)
    lock,       \* Redis: lock key -> the process whose token is stored, or NoOwner
    pc,         \* each process's position in its request
    req,        \* each process's request arguments
    booking,    \* each process's local `booking` (created row / fetched row)
    exc,        \* the exception in flight inside the `with cache.lock` block
    expired,    \* the process's lock hold ran out (its token was dropped by Redis)
    outcome,    \* what the service call raised, or NoExc when it returned
    response,   \* what the view answered
    mail,       \* send_booking_email for this call: "", "sent", "dropped"
    added,      \* rows this call inserted into the table
    attempted,  \* this call ran the INSERT
    rivals,     \* processes whose call for the same slot overlapped this call
    freeAtStart,\* the requested slot had no row when this call began
    calls,      \* requests started so far
    rules,      \* the AvailabilityRule table
    exceptions, \* the AvailabilityException table
    now,        \* timezone.now() (UTC instant)
    listed,     \* the last list_available_slots call: its arguments and result
    enumerated  \* the last slot_starts_local call: its arguments and result

\* the availability side: tables, clock and the resolver's last answers
rvars == <<rules, exceptions, now, listed, enumerated>>

vars == <<bookings, nextId, lock, pc, req, booking, exc, expired, outcome,
          response, mail, added, attempted, rivals, freeAtStart, calls, rvars>>

\* ------------------------------------------------------ time and the quota
\* services.py:122-123  timezone.localtime(starts_at_utc, tz).date()
LocalDate(t) == (t + TzOffsetMs) \div 86400000

\* models.py:128-129  a local wall-clock instant (ms since local day 0) in UTC
to_utc(dt_local) == dt_local - TzOffsetMs

\* services.py:97-107: rows of the user in [local midnight, next local midnight)
user_daily_booking_count(store, user, day_local) ==
    LET start_local == day_local * 86400000
        end_local == start_local + 86400000
        start_utc == to_utc(start_local)
        end_utc == to_utc(end_local)
    IN  Cardinality({b \in store : /\ b.user = user
                              /\ b.starts_at_utc >= start_utc
                              /\ b.starts_at_utc < end_utc})

\* The limit compared with > instead of >=
QuotaReachedOffByOne(count) == count > DailyLimit

\* services.py:125
QuotaReached(count) == count >= DailyLimit

\* ------------------------------------------------------------- the lock
\* services.py:110-111: int(starts_at_utc.timestamp()) drops the sub-second part
_lock_key(resource_id, starts_at_utc) == <<resource_id, starts_at_utc \div 1000>>

LockKeys == {_lock_key(r, t) : r \in Resources, t \in Instants}

KeyOf(p) == _lock_key(req[p].resource, req[p].starts_at_utc)

\* A SET without NX: the key is taken whoever holds it
CanAcquireHeld(l, k) == TRUE

\* cache.lock(...).acquire: SET key token NX PX 10000 succeeds on a free key only
CanAcquire(l, k) == l[k] = NoOwner

\* A release placed after the block instead of in __exit__: skipped when the
\* block raises
LockAfterExitNoFinally(l, k, p, e) ==
    IF l[k] = p /\ e.type = "none" THEN [l EXCEPT ![k] = NoOwner] ELSE l

\* Lock.__exit__ -> release(): runs whatever exception e leaves the block;
\* the key is deleted only while it still holds this process's token
LockAfterExit(l, k, p, e) == IF l[k] = p THEN [l EXCEPT ![k] = NoOwner] ELSE l

\* ---------------------------------------------------------- the exceptions
\* services.py:126
QuotaError == [type |-> "ValueError", msg |-> "Daily booking limit reached (max 5/day)."]
\* services.py:137-138
SlotBookedError == [type |-> "ValueError", msg |-> "This slot is already booked."]
\* The lock-wait failure reported with the conflict's error
LockTimeoutAsConflict == [type |-> "ValueError", msg |-> "This slot is already booked."]

\* services.py:129: Lock.__enter__ when acquire() gave up after blocking_timeout
LockTimeoutError == [type |-> "LockError", msg |-> "Unable to acquire lock within the time specified"]
\* services.py:129: Lock.__exit__ when the token is gone (the hold expired)
LockNotOwnedError == [type |-> "LockNotOwnedError", msg |-> "Cannot release a lock that's no longer owned"]
\* services.py:131-136: any other failure of the transaction
DatabaseError == [type |-> "DatabaseError", msg |-> "storage failure"]
\* services.py:140, 189: build_ics_bytes raising
IcsError == [type |-> "Exception", msg |-> "calendar export failed"]
\* services.py:146
PermissionError == [type |-> "PermissionError", msg |-> "Not allowed."]

\* redis LockError (and its subclass LockNotOwnedError) derives from ValueError
IsValueError(e) == e.type \in {"ValueError", "LockError", "LockNotOwnedError"}

\* ----------------------------------------------------------- the table
\* The table without its unique constraint
UniqueViolationDropped(store, resource, starts_at_utc) == FALSE

\* models.py:99-105: uniq_booking_resource_starts_at_utc
UniqueViolation(store, resource, starts_at_utc) ==
    \E b \in store : b.resource = resource /\ b.starts_at_utc = starts_at_utc

\* An insert that reschedules: the new row replaces the user's earlier rows
RowsAfterInsertReplacing(store, row, ok) ==
    IF ok THEN {b \in store : b.user # row.user} \cup {row} ELSE store

\* An insert that is not rolled back when the statement fails
RowsAfterInsertNoRollback(store, row, ok) == store \cup {row}

\* services.py:131-136: the transaction commits the row or rolls back
RowsAfterInsert(store, row, ok) == IF ok THEN store \cup {row} ELSE store

\* The check without the resource owner's branch
MayCancelUserOnly(b, acting_user) == b.user = acting_user

\* services.py:145
MayCancel(b, acting_user) == b.user = acting_user \/ owner[b.resource] = acting_user

\* --------------------------------------------------------------- the views
\* views.py:41-52
CreateResponse(e) ==
    IF e = NoExc
        THEN [status |-> "302 booking_success",
              message |-> "Booked successfully. Check your email for ICS."]
    ELSE IF IsValueError(e)
        THEN [status |-> "302 resource_detail", message |-> e.msg]
    ELSE [status |-> "500", message |-> ""]

\* views.py:71-80
CancelResponse(e) ==
    IF e = NoExc
        THEN [status |-> "302 resource_list", message |-> "Booking cancelled."]
    ELSE IF e.type = "PermissionError" \/ e.type = "Http404"
        THEN [status |-> "404", message |-> ""]
    ELSE [status |-> "500", message |-> ""]

NotFound == [type |-> "Http404", msg |-> ""]

\* ------------------------------------------------------------ initial state
Row(i, u, r, t) == [id |-> i, user |-> u, resource |-> r, starts_at_utc |-> t]

\* ann holds four slots of local day 1 and one slot of local day 0
Seed4 == {Row(1, "ann", "r1", T1), Row(2, "ann", "r1", T1s),
          Row(3, "ann", "r2", T1), Row(4, "ann", "r2", T1s),
          Row(5, "ann", "r1", T0)}
\* Tables the sequential use of create_booking leaves behind
SeedStores == {{}, Seed4}

\* The ids a run can issue
BookingIds == 1..(Cardinality(Seed4) + MaxCalls)

Init ==
    /\ bookings \in SeedStores
    /\ nextId = Cardinality(bookings) + 1
    /\ lock = [k \in LockKeys |-> NoOwner]
    /\ pc = [p \in Procs |-> "idle"]
    /\ req = [p \in Procs |-> NoReq]
    /\ booking = [p \in Procs |-> NoBooking]
    /\ exc = [p \in Procs |-> NoExc]
    /\ expired = [p \in Procs |-> FALSE]
    /\ outcome = [p \in Procs |-> NoExc]
    /\ response = [p \in Procs |-> NoResponse]
    /\ mail = [p \in Procs |-> ""]
    /\ added = [p \in Procs |-> {}]
    /\ attempted = [p \in Procs |-> FALSE]
    /\ rivals = [p \in Procs |-> {}]
    /\ freeAtStart = [p \in Procs |-> FALSE]
    /\ calls = 0
    /\ rules = {}
    /\ exceptions = {}
    /\ now = 0
    /\ listed = NoListing
    /\ enumerated = NoEnumeration

\* ----------------------------------------------------------- create_booking
InCreate(p) == req[p].op = "create" /\ pc[p] \in {"acquire", "locked", "exit", "notify"}

\* The critical section: inside `with cache.lock(...)`, services.py:130-138
InCritical(p) == pc[p] \in {"locked", "exit"}

SameSlot(p, resource, starts_at_utc) ==
    req[p].resource = resource /\ req[p].starts_at_utc = starts_at_utc

\* services.py:121-128: the call begins and reads the user's daily count
CreateStart(p, user, resource, starts_at_utc) ==
    /\ pc[p] = "idle"
    /\ calls < MaxCalls
    /\ calls' = calls + 1
    /\ req' = [req EXCEPT ![p] = [op |-> "create", user |-> user, resource |-> resource,
                                  starts_at_utc |-> starts_at_utc]]
    /\ freeAtStart' = [freeAtStart EXCEPT
                         ![p] = ~UniqueViolation(bookings, resource, starts_at_utc)]
    /\ LET others == {q \in Procs \ {p} : InCreate(q) /\ SameSlot(q, resource, starts_at_utc)}
       IN  rivals' = [q \in Procs |-> IF q = p THEN others
                                      ELSE IF q \in others THEN rivals[q] \cup {p}
                                      ELSE rivals[q]]
    /\ IF QuotaReached(user_daily_booking_count(bookings, user, LocalDate(starts_at_utc)))
          THEN /\ pc' = [pc EXCEPT ![p] = "done"]
               /\ outcome' = [outcome EXCEPT ![p] = QuotaError]
               /\ response' = [response EXCEPT ![p] = CreateResponse(QuotaError)]
          ELSE /\ pc' = [pc EXCEPT ![p] = "acquire"]
               /\ UNCHANGED <<outcome, response>>
    /\ UNCHANGED <<bookings, nextId, lock, booking, exc, expired, mail, added, attempted>>
    /\ UNCHANGED rvars

\* services.py:129: Lock.__enter__, acquire() succeeds
Acquire(p) ==
    /\ pc[p] = "acquire"
    /\ CanAcquire(lock, KeyOf(p))
    /\ lock' = [lock EXCEPT ![KeyOf(p)] = p]
    /\ pc' = [pc EXCEPT ![p] = "locked"]
    /\ UNCHANGED <<bookings, nextId, req, booking, exc, expired, outcome, response,
                   mail, added, attempted, rivals, freeAtStart, calls>>
    /\ UNCHANGED rvars

\* services.py:129: blocking_timeout=5 ran out while the key was held
AcquireTimeout(p) ==
    /\ pc[p] = "acquire"
    /\ lock[KeyOf(p)] # NoOwner
    /\ pc' = [pc EXCEPT ![p] = "done"]
    /\ outcome' = [outcome EXCEPT ![p] = LockTimeoutError]
    /\ response' = [response EXCEPT ![p] = CreateResponse(LockTimeoutError)]
    /\ UNCHANGED <<bookings, nextId, lock, req, booking, exc, expired, mail, added, attempted,
                   rivals, freeAtStart, calls>>
    /\ UNCHANGED rvars

\* A lock created without timeout: a held key stays until it is released
HoldNeverExpires(l, k) == FALSE

\* services.py:129: timeout=10, a held key has a time to live
HoldExpires(l, k) == l[k] # NoOwner

\* services.py:129: timeout=10, Redis drops the key of a hold older than 10 s
Expire(k) ==
    /\ HoldExpires(lock, k)
    /\ expired' = [expired EXCEPT ![lock[k]] = TRUE]
    /\ lock' = [lock EXCEPT ![k] = NoOwner]
    /\ UNCHANGED <<bookings, nextId, pc, req, booking, exc, outcome, response, mail,
                   added, attempted, rivals, freeAtStart, calls>>
    /\ UNCHANGED rvars

\* services.py:130-138: the transaction; dbfail is a storage failure other than
\* the unique constraint
Insert(p, dbfail) ==
    /\ pc[p] = "locked"
    /\ LET row == Row(nextId, req[p].user, req[p].resource, req[p].starts_at_utc)
           clash == UniqueViolation(bookings, req[p].resource, req[p].starts_at_utc)
           ok == ~dbfail /\ ~clash
       IN  /\ bookings' = RowsAfterInsert(bookings, row, ok)
           /\ added' = [added EXCEPT ![p] = added[p] \cup (bookings' \ bookings)]
           /\ nextId' = IF ok THEN nextId + 1 ELSE nextId
           /\ booking' = [booking EXCEPT ![p] = IF ok THEN row ELSE NoBooking]
           /\ exc' = [exc EXCEPT ![p] = IF dbfail THEN DatabaseError
                                        ELSE IF clash THEN SlotBookedError
                                        ELSE NoExc]
    /\ attempted' = [attempted EXCEPT ![p] = TRUE]
    /\ pc' = [pc EXCEPT ![p] = "exit"]
    /\ UNCHANGED <<lock, req, expired, outcome, response, mail, rivals, freeAtStart, calls>>
    /\ UNCHANGED rvars

\* What leaves the `with` block: release() raises when the token is gone,
\* replacing the exception in flight
RaisedAtExit(l, k, p, e) == IF l[k] = p THEN e ELSE LockNotOwnedError

\* services.py:129: Lock.__exit__
Release(p) ==
    /\ pc[p] = "exit"
    /\ lock' = LockAfterExit(lock, KeyOf(p), p, exc[p])
    /\ LET e == RaisedAtExit(lock, KeyOf(p), p, exc[p])
       IN  IF e = NoExc
              THEN /\ pc' = [pc EXCEPT ![p] = "notify"]
                   /\ UNCHANGED <<outcome, response>>
              ELSE /\ pc' = [pc EXCEPT ![p] = "done"]
                   /\ outcome' = [outcome EXCEPT ![p] = e]
                   /\ response' = [response EXCEPT ![p] = CreateResponse(e)]
    /\ exc' = [exc EXCEPT ![p] = NoExc]
    /\ UNCHANGED <<bookings, nextId, req, booking, expired, mail, added, attempted, rivals,
                   freeAtStart, calls>>
    /\ UNCHANGED rvars

\* services.py:140-141 and 172-191: result is what send_booking_email met:
\* "sent", "send_failed" (swallowed by fail_silently) or "build_failed"
\* (build_ics_bytes raised)
NotifyRaises(result) == IF result = "build_failed" THEN IcsError ELSE NoExc

Notify(p, result) ==
    /\ pc[p] = "notify"
    /\ pc' = [pc EXCEPT ![p] = "done"]
    /\ mail' = [mail EXCEPT ![p] = IF result = "sent" THEN "sent" ELSE "dropped"]
    /\ outcome' = [outcome EXCEPT ![p] = NotifyRaises(result)]
    /\ response' = [response EXCEPT ![p] = CreateResponse(NotifyRaises(result))]
    /\ UNCHANGED <<bookings, nextId, lock, req, booking, exc, expired, added, attempted, rivals,
                   freeAtStart, calls>>
    /\ UNCHANGED rvars

\* ----------------------------------------------------------- booking_cancel
\* views.py:71-74: get_object_or_404, for an id that was issued at some time
CancelFetch(p, acting_user, booking_id) ==
    /\ pc[p] = "idle"
    /\ booking_id < nextId
    /\ calls < MaxCalls
    /\ calls' = calls + 1
    /\ req' = [req EXCEPT ![p] = [op |-> "cancel", user |-> acting_user, resource |-> "-",
                                  starts_at_utc |-> 0]]
    /\ IF \E b \in bookings : b.id = booking_id
          THEN /\ booking' = [booking EXCEPT
                                ![p] = CHOOSE b \in bookings : b.id = booking_id]
               /\ pc' = [pc EXCEPT ![p] = "cancel"]
               /\ UNCHANGED <<outcome, response>>
          ELSE /\ pc' = [pc EXCEPT ![p] = "done"]
               /\ outcome' = [outcome EXCEPT ![p] = NotFound]
               /\ response' = [response EXCEPT ![p] = CancelResponse(NotFound)]
               /\ UNCHANGED booking
    /\ UNCHANGED <<bookings, nextId, lock, exc, expired, mail, added, attempted, rivals,
                   freeAtStart>>
    /\ UNCHANGED rvars

\* services.py:144-147 and views.py:75-80
CancelBooking(p) ==
    /\ pc[p] = "cancel"
    /\ pc' = [pc EXCEPT ![p] = "done"]
    /\ IF MayCancel(booking[p], req[p].user)
          THEN /\ bookings' = {b \in bookings : b.id # booking[p].id}
               /\ outcome' = [outcome EXCEPT ![p] = NoExc]
               /\ response' = [response EXCEPT ![p] = CancelResponse(NoExc)]
          ELSE /\ UNCHANGED bookings
               /\ outcome' = [outcome EXCEPT ![p] = PermissionError]
               /\ response' = [response EXCEPT ![p] = CancelResponse(PermissionError)]
    /\ UNCHANGED <<nextId, lock, req, booking, exc, expired, mail, added, attempted, rivals,
                   freeAtStart, calls>>
    /\ UNCHANGED rvars

\* The request is answered; the process serves the next one
Return(p) ==
    /\ pc[p] = "done"
    /\ pc' = [pc EXCEPT ![p] = "idle"]
    /\ req' = [req EXCEPT ![p] = NoReq]
    /\ booking' = [booking EXCEPT ![p] = NoBooking]
    /\ expired' = [expired EXCEPT ![p] = FALSE]
    /\ outcome' = [outcome EXCEPT ![p] = NoExc]
    /\ response' = [response EXCEPT ![p] = NoResponse]
    /\ mail' = [mail EXCEPT ![p] = ""]
    /\ added' = [added EXCEPT ![p] = {}]
    /\ attempted' = [attempted EXCEPT ![p] = FALSE]
    /\ rivals' = [q \in Procs |-> IF q = p THEN {} ELSE rivals[q] \ {p}]
    /\ freeAtStart' = [freeAtStart EXCEPT ![p] = FALSE]
    /\ UNCHANGED <<bookings, nextId, lock, exc, calls>>
    /\ UNCHANGED rvars

Next ==
    \/ \E p \in Procs, u \in Bookers, r \in Resources, t \in RequestInstants :
           CreateStart(p, u, r, t)
    \/ \E p \in Procs : Acquire(p)
    \/ \E p \in Procs : AcquireTimeout(p)
    \/ \E k \in LockKeys : Expire(k)
    \/ \E p \in Procs, dbfail \in BOOLEAN : Insert(p, dbfail)
    \/ \E p \in Procs : Release(p)
    \/ \E p \in Procs, result \in {"sent", "send_failed", "build_failed"} :
           Notify(p, result)
    \/ \E p \in Procs, u \in Users, i \in BookingIds : CancelFetch(p, u, i)
    \/ \E p \in Procs : CancelBooking(p)
    \/ \E p \in Procs : Return(p)

Spec == Init /\ [][Next]_vars

\* ==================================================== availability resolver
\* Local wall-clock instants are milliseconds since 00:00 local of local
\* day 0, which is a Monday; a time of day is milliseconds since midnight.

\* models.py:137: timedelta(minutes=45)
SlotLength == 45 * 60000

\* a time of day, hh:mm
HM(h, m) == (h * 60 + m) * 60000

\* a TimeField that is NULL
NoTime == 0 - 1

\* timezone.now().astimezone(tz), services.py:84
to_local(t_utc) == t_utc + TzOffsetMs

\* services.py:68: date.weekday(), Monday = 0
Weekday(day_local) == day_local % 7

\* models.py:133-134: datetime.combine(day_local, t)
Combine(day_local, t) == day_local * 86400000 + t

\* the local date of a local wall-clock instant
DateOf(dt_local) == dt_local \div 86400000

\* models.py:124-125
daterange(start_date, days) == [idx \in 1..days |-> start_date + (idx - 1)]

\* The loop with a slot that must end strictly before the close
RECURSIVE SlotLoopStrict(_, _)
SlotLoopStrict(slot, end_dt) ==
    IF slot + SlotLength < end_dt
        THEN <<slot>> \o SlotLoopStrict(slot + SlotLength, end_dt)
        ELSE <<>>

\* models.py:137-139: the while loop
RECURSIVE SlotLoop(_, _)
SlotLoop(slot, end_dt) ==
    IF slot + SlotLength <= end_dt
        THEN <<slot>> \o SlotLoop(slot + SlotLength, end_dt)
        ELSE <<>>

\* models.py:132-140
slot_starts_local(day_local, start_t, end_t) ==
    SlotLoop(Combine(day_local, start_t), Combine(day_local, end_t))

\* services.py:29-31
Slot(starts_local) == [starts_local |-> starts_local, starts_utc |-> to_utc(starts_local)]

\* The filter without is_active
ActiveRulesAll(rs, resource) == {r \in rs : r.resource = resource}

\* services.py:41-45: the rules the query loads
ActiveRules(rs, resource) == {r \in rs : r.resource = resource /\ r.is_active}

\* services.py:44: order_by("weekday", "start_time_local"); ties in table order
RuleBefore(a, b) ==
    \/ a.start_time_local < b.start_time_local
    \/ a.start_time_local = b.start_time_local /\ a.id < b.id

RECURSIVE RuleOrder(_)
RuleOrder(S) ==
    IF S = {} THEN <<>>
    ELSE LET first == CHOOSE a \in S : \A b \in S \ {a} : RuleBefore(a, b)
         IN  <<first>> \o RuleOrder(S \ {first})

\* services.py:46-48 and 69: rules_by_weekday.get(weekday, [])
DayRules(rs, resource, weekday) ==
    RuleOrder({r \in ActiveRules(rs, resource) : r.weekday = weekday})

NoException == [resource |-> "-", date_local |-> 0 - 1, is_closed |-> FALSE,
                start_time_local |-> NoTime, end_time_local |-> NoTime]

\* services.py:50-59 and 64: exceptions.get(day_local)
ExceptionOn(exs, resource, day_local) ==
    IF \E ex \in exs : ex.resource = resource /\ ex.date_local = day_local
        THEN CHOOSE ex \in exs : ex.resource = resource /\ ex.date_local = day_local
        ELSE NoException

\* A closed flag that an exception's override times switch off
DayClosedUnlessTimes(exception) ==
    /\ exception # NoException
    /\ exception.is_closed
    /\ exception.start_time_local = NoTime

\* services.py:65
DayClosed(exception) == exception # NoException /\ exception.is_closed

\* The override taken when either time is set
OverrideAppliesEither(exception) ==
    /\ exception # NoException
    /\ ~exception.is_closed
    /\ (exception.start_time_local # NoTime \/ exception.end_time_local # NoTime)

\* services.py:77-78 (a datetime.time is always true; only None is false)
OverrideApplies(exception) ==
    /\ exception # NoException
    /\ ~exception.is_closed
    /\ exception.start_time_local # NoTime /\ exception.end_time_local # NoTime

\* services.py:74-80
EffectiveStart(rule, exception) ==
    IF OverrideApplies(exception) THEN exception.start_time_local
    ELSE rule.start_time_local

EffectiveEnd(rule, exception) ==
    IF OverrideApplies(exception) THEN exception.end_time_local
    ELSE rule.end_time_local

\* No slot is taken for past
InPastNever(starts_local, now_local) == FALSE

\* services.py:84
InPast(starts_local, now_local) == starts_local < now_local

\* services.py:82-86: the slots one rule contributes on one day
RECURSIVE KeepFuture(_, _)
KeepFuture(starts, now_utc) ==
    IF starts = <<>> THEN <<>>
    ELSE IF InPast(Head(starts), to_local(now_utc))
        THEN KeepFuture(Tail(starts), now_utc)
    ELSE <<Slot(Head(starts))>> \o KeepFuture(Tail(starts), now_utc)

\* services.py:73-86: the loop over the day's rules
RECURSIVE RulesSlots(_, _, _, _)
RulesSlots(day_rules, day_local, exception, now_utc) ==
    IF day_rules = <<>> THEN <<>>
    ELSE KeepFuture(slot_starts_local(day_local,
                                      EffectiveStart(Head(day_rules), exception),
                                      EffectiveEnd(Head(day_rules), exception)),
                    now_utc)
         \o RulesSlots(Tail(day_rules), day_local, exception, now_utc)

\* services.py:63-86: the loop over the window
RECURSIVE WindowSlots(_, _, _, _, _)
WindowSlots(window_days, rs, exs, resource, now_utc) ==
    IF window_days = <<>> THEN <<>>
    ELSE LET day_local == Head(window_days)
             exception == ExceptionOn(exs, resource, day_local)
             today == IF DayClosed(exception) THEN <<>>
                      ELSE RulesSlots(DayRules(rs, resource, Weekday(day_local)),
                                      day_local, exception, now_utc)
         IN  today \o WindowSlots(Tail(window_days), rs, exs, resource, now_utc)

\* The booked instants of every resource
BookedAnyResource(store, resource, now_utc) ==
    {b.starts_at_utc : b \in {x \in store : x.starts_at_utc >= now_utc - 86400000}}

\* services.py:88-93
Booked(store, resource, now_utc) ==
    {b.starts_at_utc : b \in {x \in store : /\ x.resource = resource
                                            /\ x.starts_at_utc >= now_utc - 86400000}}

\* services.py:38-94
list_available_slots(rs, exs, store, resource, days_ahead, now_utc) ==
    LET today_local == LocalDate(now_utc)
        out == WindowSlots(daterange(today_local, days_ahead), rs, exs, resource, now_utc)
        booked == Booked(store, resource, now_utc)
    IN  SelectSeq(out, LAMBDA sl : sl.starts_utc \notin booked)

\* ============================================ specification of the resolver
\* The availability tables are drawn at Init; the actions are the calls of
\* list_available_slots and slot_starts_local.

coordVars == <<nextId, lock, pc, req, booking, exc, expired, outcome, response,
               mail, added, attempted, rivals, freeAtStart, calls>>

\* no coordinator call is in progress
CoordIdle ==
    /\ nextId = Cardinality(bookings) + 1
    /\ lock = [k \in LockKeys |-> NoOwner]
    /\ pc = [p \in Procs |-> "idle"]
    /\ req = [p \in Procs |-> NoReq]
    /\ booking = [p \in Procs |-> NoBooking]
    /\ exc = [p \in Procs |-> NoExc]
    /\ expired = [p \in Procs |-> FALSE]
    /\ outcome = [p \in Procs |-> NoExc]
    /\ response = [p \in Procs |-> NoResponse]
    /\ mail = [p \in Procs |-> ""]
    /\ added = [p \in Procs |-> {}]
    /\ attempted = [p \in Procs |-> FALSE]
    /\ rivals = [p \in Procs |-> {}]
    /\ freeAtStart = [p \in Procs |-> FALSE]
    /\ calls = 0

\* models.py:33-57
Rule(id, resource, weekday, start_t, end_t, is_active) ==
    [id |-> id, resource |-> resource, weekday |-> weekday,
     start_time_local |-> start_t, end_time_local |-> end_t, is_active |-> is_active]

\* models.py:60-81
Exception(resource, date_local, is_closed, start_t, end_t) ==
    [resource |-> resource, date_local |-> date_local, is_closed |-> is_closed,
     start_time_local |-> start_t, end_time_local |-> end_t]

\* Rule rows: a Monday rule 09:00-10:30, a second Monday shift, an inverted
\* Tuesday rule, an inactive Wednesday rule, a rule of the other resource.
RuleRows ==
    { Rule(1, "r1", 0, HM(9, 0), HM(10, 30), TRUE),
      Rule(2, "r1", 0, HM(13, 0), HM(14, 0), TRUE),
      Rule(3, "r1", 1, HM(10, 0), HM(9, 0), TRUE),
      Rule(4, "r1", 2, HM(9, 0), HM(9, 45), FALSE),
      Rule(5, "r2", 0, HM(9, 0), HM(9, 45), TRUE) }

\* the Monday and the Wednesday of next week
NextMonday == 7
NextWednesday == 9

\* Exception tables: none; closed; closed with override times; open with an
\* override 08:00-08:45; open with one time; open with no time; an override
\* on a weekday without active rule; an exception of the other resource.
ExceptionTables ==
    { {},
      {Exception("r1", NextMonday, TRUE, NoTime, NoTime)},
      {Exception("r1", NextMonday, TRUE, HM(8, 0), HM(8, 45))},
      {Exception("r1", NextMonday, FALSE, HM(8, 0), HM(8, 45))},
      {Exception("r1", NextMonday, FALSE, HM(8, 0), NoTime)},
      {Exception("r1", NextMonday, FALSE, NoTime, NoTime)},
      {Exception("r1", NextWednesday, FALSE, HM(8, 0), HM(8, 45))},
      {Exception("r2", NextMonday, TRUE, NoTime, NoTime),
       Exception("r1", NextMonday, FALSE, HM(8, 0), HM(10, 15))} }

\* Clock readings on Monday of week 0: before every slot, exactly at the
\* 09:45 slot, one minute after it, and half past midnight local on Tuesday
\* (still Monday in UTC).
Clock ==
    { to_utc(Combine(0, HM(8, 0))), to_utc(Combine(0, HM(9, 45))),
      to_utc(Combine(0, HM(9, 46))), to_utc(Combine(1, HM(0, 30))) }

\* Booking tables: none; r1 booked next Monday 09:00 and r2 at 09:45; r2
\* booked next Monday 09:00; r1 booked next Monday 08:00.
ListStores ==
    { {},
      {Row(1, "ann", "r1", to_utc(Combine(NextMonday, HM(9, 0)))),
       Row(2, "bob", "r2", to_utc(Combine(NextMonday, HM(9, 45))))},
      {Row(1, "ann", "r2", to_utc(Combine(NextMonday, HM(9, 0))))},
      {Row(1, "ann", "r1", to_utc(Combine(NextMonday, HM(8, 0))))} }

\* views.py:26 (default 14) and forms.py:37 (21)
Windows == {14, 21}

SlotInit ==
    /\ bookings \in ListStores
    /\ CoordIdle
    /\ rules \in SUBSET RuleRows
    /\ exceptions \in ExceptionTables
    /\ now \in Clock
    /\ listed = NoListing
    /\ enumerated = NoEnumeration

\* services.py:38-94
ListSlots(resource, days_ahead) ==
    /\ listed' = [resource |-> resource, days_ahead |-> days_ahead,
                  out |-> list_available_slots(rules, exceptions, bookings,
                                               resource, days_ahead, now)]
    /\ UNCHANGED <<bookings, coordVars, rules, exceptions, now, enumerated>>

SlotNext == \E resource \in Resources, days_ahead \in Windows : ListSlots(resource, days_ahead)

SlotSpec == SlotInit /\ [][SlotNext]_vars

\* ========================================== specification of the enumeration
\* Times of day given to slot_starts_local
Times == {HM(8, 0), HM(8, 44), HM(8, 45), HM(9, 0), HM(9, 45), HM(10, 29),
          HM(10, 30), HM(11, 15), HM(23, 15), HM(23, 59)}

EnumDays == {0, NextMonday}

EnumInit ==
    /\ bookings = {}
    /\ CoordIdle
    /\ rules = {}
    /\ exceptions = {}
    /\ now = 0
    /\ listed = NoListing
    /\ enumerated = NoEnumeration

\* models.py:132-140
EnumerateSlots(day_local, start_t, end_t) ==
    /\ enumerated' = [day_local |-> day_local, start_t |-> start_t, end_t |-> end_t,
                      out |-> slot_starts_local(day_local, start_t, end_t)]
    /\ UNCHANGED <<bookings, coordVars, rules, exceptions, now, listed>>

EnumNext == \E day_local \in EnumDays, start_t \in Times, end_t \in Times :
                EnumerateSlots(day_local, start_t, end_t)

EnumSpec == EnumInit /\ [][EnumNext]_vars

\* ============================================ specification of booking_create
\* The view validates the form against the availability tables, then calls
\* create_booking; each process serves one request.

\* forms.py:35, 39
ValidationError(msg) == [type |-> "ValidationError", msg |-> msg]

\* The validation without the availability check
FormErrorPastOnly(store, resource, dt, now_utc) ==
    IF dt < now_utc THEN "Slot is in the past." ELSE ""

\* forms.py:29-41: clean_starts_at_utc; "" when the field is valid
FormError(store, resource, dt, now_utc) ==
    LET listing == list_available_slots(rules, exceptions, store, resource, 21, now_utc)
        available == {listing[i].starts_utc : i \in 1..Len(listing)}
    IN  IF dt < now_utc THEN "Slot is in the past."
        ELSE IF dt \notin available THEN "Slot is not available."
        ELSE ""

\* Rule tables: none; Tuesday 00:00-00:45 local (the slot at T1); that rule
\* with Tuesday 01:30-02:15 (T2) and Monday 23:00-23:45 (T0); a rule of r2.
ViewRules ==
    { {},
      {Rule(1, "r1", 1, HM(0, 0), HM(0, 45), TRUE)},
      {Rule(1, "r1", 1, HM(0, 0), HM(0, 45), TRUE),
       Rule(2, "r1", 1, HM(1, 30), HM(2, 15), TRUE),
       Rule(3, "r1", 0, HM(23, 0), HM(23, 45), TRUE)},
      {Rule(4, "r2", 1, HM(0, 0), HM(0, 45), TRUE)} }

\* Clock readings: 20 days before Monday (T1 is outside the 21-day window),
\* an hour before T0, exactly T1, a minute after T1.
ViewClock == {to_utc(Combine(0 - 20, HM(12, 0))), T0 - 3600000, T1, T1 + 60000}

\* Booking tables: none; r1 already booked at T2.
ViewStores == {{}, {Row(1, "ann", "r1", T2)}}

ViewInit ==
    /\ bookings \in ViewStores
    /\ CoordIdle
    /\ rules \in ViewRules
    /\ exceptions = {}
    /\ now \in ViewClock
    /\ listed = NoListing
    /\ enumerated = NoEnumeration

\* views.py:53-54: the form is invalid
Reject(p, user, resource, starts_at_utc, error) ==
    /\ calls' = calls + 1
    /\ req' = [req EXCEPT ![p] = [op |-> "invalid", user |-> user, resource |-> resource,
                                  starts_at_utc |-> starts_at_utc]]
    /\ pc' = [pc EXCEPT ![p] = "done"]
    /\ outcome' = [outcome EXCEPT ![p] = ValidationError(error)]
    /\ response' = [response EXCEPT ![p] = [status |-> "302 resource_detail",
                                            message |-> "Invalid booking data."]]
    /\ UNCHANGED <<bookings, nextId, lock, booking, exc, expired, mail, added, attempted,
                   rivals, freeAtStart>>
    /\ UNCHANGED rvars

\* views.py:38-54: POST; the form is validated, then create_booking is called
Submit(p, user, resource, starts_at_utc) ==
    /\ pc[p] = "idle"
    /\ calls < MaxCalls
    /\ LET error == FormError(bookings, resource, starts_at_utc, now)
       IN  IF error = ""
               THEN CreateStart(p, user, resource, starts_at_utc)
               ELSE Reject(p, user, resource, starts_at_utc, error)

\* the transaction commits and the mail is sent (failures are in Spec)
ViewNext ==
    \/ \E p \in Procs, u \in Bookers, r \in Resources, t \in Instants :
           Submit(p, u, r, t)
    \/ \E p \in Procs : Acquire(p)
    \/ \E p \in Procs : AcquireTimeout(p)
    \/ \E k \in LockKeys : Expire(k)
    \/ \E p \in Procs : Insert(p, FALSE)
    \/ \E p \in Procs : Release(p)
    \/ \E p \in Procs : Notify(p, "sent")

ViewSpec == ViewInit /\ [][ViewNext]_vars

\* ======================================= specification with a crashing holder
\* Each process serves one create_booking call and may be killed inside the
\* lock block; the scheduling is fair.

LiveInit ==
    /\ bookings = {}
    /\ CoordIdle
    /\ rules = {}
    /\ exceptions = {}
    /\ now = 0
    /\ listed = NoListing
    /\ enumerated = NoEnumeration

\* services.py:129-138: the process dies inside the `with cache.lock` block;
\* __exit__ never runs and the key stays in Redis
Crash(p) ==
    /\ InCritical(p)
    /\ pc' = [pc EXCEPT ![p] = "crashed"]
    /\ exc' = [exc EXCEPT ![p] = NoExc]
    /\ UNCHANGED <<bookings, nextId, lock, req, booking, expired, outcome, response, mail,
                   added, attempted, rivals, freeAtStart, calls>>
    /\ UNCHANGED rvars

\* the calls: one user, both resources, two instants that share a lock key
LiveInstants == {T1, T1s}

LiveNext ==
    \/ \E p \in Procs, r \in Resources, t \in LiveInstants :
           CreateStart(p, "ann", r, t)
    \/ \E p \in Procs : Acquire(p)
    \/ \E p \in Procs : AcquireTimeout(p)
    \/ \E k \in LockKeys : Expire(k)
    \/ \E p \in Procs, dbfail \in BOOLEAN : Insert(p, dbfail)
    \/ \E p \in Procs : Release(p)
    \/ \E p \in Procs, result \in {"sent", "send_failed", "build_failed"} :
           Notify(p, result)
    \/ \E p \in Procs : Crash(p)

\* services.py:129: acquire() returns within blocking_timeout=5, with the key
\* or without it; a live process runs its next statement; Redis drops a held
\* key when its 10 s are over. Nothing forces a call to start or a crash.
LiveFairness ==
    /\ \A p \in Procs :
        /\ WF_vars(Acquire(p) \/ AcquireTimeout(p))
        /\ WF_vars(\E dbfail \in BOOLEAN : Insert(p, dbfail))
        /\ WF_vars(Release(p))
        /\ WF_vars(\E result \in {"sent", "send_failed", "build_failed"} : Notify(p, result))
    /\ \A k \in LockKeys : WF_vars(Expire(k))

LiveSpec == LiveInit /\ [][LiveNext]_vars /\ LiveFairness

\* ================================================ specification of the core
\* The four operations together: list_available_slots beside create_booking
\* (which reads user_daily_booking_count) and cancel_booking, over tables in
\* which (r1, T2) is booked at the start.

\* Rule table: r1 on Tuesday 00:00-00:45 (T1) and 01:30-02:15 (T2) local, r2
\* on Tuesday 01:30-02:15.
CoreRules ==
    { Rule(1, "r1", 1, HM(0, 0), HM(0, 45), TRUE),
      Rule(2, "r1", 1, HM(1, 30), HM(2, 15), TRUE),
      Rule(3, "r2", 1, HM(1, 30), HM(2, 15), TRUE) }

\* Booking tables: ann holds (r1, T2); bob holds (r2, T2) as well.
CoreStores ==
    { {Row(1, "ann", "r1", T2)},
      {Row(1, "ann", "r1", T2), Row(2, "bob", "r2", T2)} }

\* the instant create_booking is called with
CoreInstants == {T2}

CoreInit ==
    /\ bookings \in CoreStores
    /\ CoordIdle
    /\ rules = CoreRules
    /\ exceptions = {}
    /\ now = T0 - 3600000
    /\ listed = NoListing
    /\ enumerated = NoEnumeration

CoreNext ==
    \/ \E p \in Procs, u \in Bookers, r \in Resources, t \in CoreInstants :
           CreateStart(p, u, r, t)
    \/ \E p \in Procs : Acquire(p)
    \/ \E p \in Procs : AcquireTimeout(p)
    \/ \E k \in LockKeys : Expire(k)
    \/ \E p \in Procs, dbfail \in BOOLEAN : Insert(p, dbfail)
    \/ \E p \in Procs : Release(p)
    \/ \E p \in Procs, result \in {"sent", "build_failed"} : Notify(p, result)
    \/ \E p \in Procs, u \in Users, i \in BookingIds : CancelFetch(p, u, i)
    \/ \E p \in Procs : CancelBooking(p)
    \/ \E p \in Procs : Return(p)
    \/ \E r \in Resources : ListSlots(r, 14)

CoreSpec == CoreInit /\ [][CoreNext]_vars

\* ===================================================================== C1
\* C1: in every reachable state the Booking table holds at most one row per
\* (resource, starts_at_utc), also when the lock gave no exclusion: the insert
\* itself is rejected.
C1_OneBookingPerSlot ==
    \A a \in bookings, b \in bookings :
        (a.resource = b.resource /\ a.starts_at_utc = b.starts_at_utc) => a = b

\* Two calls for one slot are inside the lock block at once (the first hold
\* expired), one has committed its row and the other's insert was rejected.
C1_Witness ==
    \E p \in Procs, q \in Procs :
        /\ p # q
        /\ InCritical(p) /\ InCritical(q)
        /\ SameSlot(p, req[q].resource, req[q].starts_at_utc)
        /\ booking[q] \in bookings
        /\ exc[p] = SlotBookedError

\* ===================================================================== C2
\* C2: two concurrent create_booking calls for one (resource, starts_at_utc),
\* both under quota, the slot free beforehand and the storage working: exactly
\* one returns the booking and the other raises SlotAlreadyBooked or
\* LockTimeout.
C2_ExactlyOneSucceeds ==
    \A p \in Procs, q \in Procs :
        ( /\ p # q
          /\ pc[p] = "done" /\ pc[q] = "done"
          /\ req[p].op = "create" /\ req[q].op = "create"
          /\ SameSlot(p, req[q].resource, req[q].starts_at_utc)
          /\ q \in rivals[p]
          /\ freeAtStart[p] \/ freeAtStart[q]
          /\ outcome[p] # QuotaError /\ outcome[q] # QuotaError
          /\ outcome[p] # DatabaseError /\ outcome[q] # DatabaseError )
        => \/ outcome[p] = NoExc /\ outcome[q] \in {SlotBookedError, LockTimeoutError}
           \/ outcome[q] = NoExc /\ outcome[p] \in {SlotBookedError, LockTimeoutError}

\* ===================================================================== C3
\* C3: in every reachable state no user holds more than 5 bookings whose
\* starts_at_utc falls on one local day.
BookingsOnLocalDay(store, user, day_local) ==
    {b \in store : b.user = user /\ LocalDate(b.starts_at_utc) = day_local}

C3_DailyQuotaHolds ==
    \A u \in Users, t \in Instants :
        Cardinality(BookingsOnLocalDay(bookings, u, LocalDate(t))) <= DailyLimit

\* ===================================================================== C4
\* C4: a create_booking call is rejected with QuotaExceeded exactly when its
\* user already has 5 or more bookings on the local day of the requested
\* instant, whatever resources are involved; QuotaExceeded is raised nowhere
\* else.
C4_QuotaDecision ==
    [][\A p \in Procs :
          /\ (pc[p] = "idle" /\ pc'[p] # "idle" /\ req'[p].op = "create")
             => LET n == Cardinality(BookingsOnLocalDay(
                             bookings, req'[p].user, LocalDate(req'[p].starts_at_utc)))
                IN  (pc'[p] = "done" /\ outcome'[p] = QuotaError) <=> n >= 5
          /\ (outcome'[p] = QuotaError /\ outcome[p] # QuotaError) => pc[p] = "idle"
      ]_vars

\* A sixth attempt of the local day, for a free slot of r2 while the five
\* bookings are spread over r1 and r2, was rejected.
C4_Witness ==
    \E p \in Procs :
        /\ pc[p] = "done" /\ req[p].op = "create"
        /\ outcome[p] = QuotaError
        /\ req[p].resource = "r2"
        /\ ~UniqueViolation(bookings, req[p].resource, req[p].starts_at_utc)
        /\ Cardinality(BookingsOnLocalDay(bookings, req[p].user,
                                          LocalDate(req[p].starts_at_utc))) = 5
        /\ \E b \in bookings : b.user = req[p].user /\ b.resource = "r1"

\* ===================================================================== C5
\* C5 as stated: for one (resource, starts_at_utc) at most one create_booking
\* call is inside its critical section at any time.
C5_OneInCriticalSection ==
    \A p \in Procs, q \in Procs :
        (p # q /\ InCritical(p) /\ InCritical(q))
        => ~SameSlot(p, req[q].resource, req[q].starts_at_utc)

\* C5 amended: of the calls that are inside their critical section for one
\* (resource, starts_at_utc), at most one has a hold that has not expired.
C5_OneUnexpiredHolder ==
    \A p \in Procs, q \in Procs :
        ( /\ p # q /\ InCritical(p) /\ InCritical(q)
          /\ SameSlot(p, req[q].resource, req[q].starts_at_utc) )
        => expired[p] \/ expired[q]

\* Two calls for one slot are in the critical section, the second holding
\* the lock that the first lost to the 10 s expiry.
C5_Witness ==
    \E p \in Procs, q \in Procs :
        /\ p # q /\ InCritical(p) /\ InCritical(q)
        /\ SameSlot(p, req[q].resource, req[q].starts_at_utc)
        /\ expired[p] /\ ~expired[q]
        /\ lock[KeyOf(q)] = q

\* ===================================================================== C6
\* C6: when the notification step fails after the row was committed,
\* create_booking still returns the committed Booking, the caller sees no
\* error and the row it added is not taken back.
C6_NotificationFailureSwallowed ==
    \A p \in Procs :
        (pc[p] = "done" /\ req[p].op = "create" /\ mail[p] = "dropped")
        => /\ outcome[p] = NoExc
           /\ response[p].status = "302 booking_success"
           /\ added[p] = {booking[p]}

\* ===================================================================== C7
\* C7: a create_booking call that ends in QuotaExceeded, LockTimeout or
\* SlotAlreadyBooked has added no row, a call that returns has added exactly
\* one row carrying the requested user, resource and starts_at_utc, and no
\* step of a create_booking call changes or removes a row.
C7_CreateFrame ==
    [][\A p \in Procs :
          /\ (pc[p] # "done" /\ pc'[p] = "done" /\ req'[p].op = "create"
                /\ outcome'[p] \in {QuotaError, LockTimeoutError, SlotBookedError})
             => added'[p] = {}
          /\ (pc[p] # "done" /\ pc'[p] = "done" /\ req'[p].op = "create"
                /\ outcome'[p] = NoExc)
             => /\ added'[p] = {booking'[p]}
                /\ booking'[p].user = req'[p].user
                /\ booking'[p].resource = req'[p].resource
                /\ booking'[p].starts_at_utc = req'[p].starts_at_utc
          /\ (pc[p] # pc'[p] /\ req'[p].op = "create")
             => /\ bookings \subseteq bookings'
                /\ bookings' \ bookings = added'[p] \ added[p]
                /\ Cardinality(bookings' \ bookings) <= 1
      ]_vars

\* One call ended in SlotAlreadyBooked and another returned its booking.
C7_Witness ==
    \E p \in Procs, q \in Procs :
        /\ pc[p] = "done" /\ req[p].op = "create" /\ outcome[p] = SlotBookedError
        /\ pc[q] = "done" /\ req[q].op = "create" /\ outcome[q] = NoExc
        /\ booking[q] \in bookings

\* ===================================================================== C8
\* C8: a lock key holds a process's token only while that process is inside
\* the lock block for that key: once the call has left the block (returned,
\* or raised on any path) its lock is released.
C8_LockReleasedOnExit ==
    \A p \in Procs, k \in LockKeys :
        lock[k] = p => (InCritical(p) /\ k = KeyOf(p))

\* A call whose insert raised inside the block is over and its key is free.
C8_Witness ==
    \E p \in Procs :
        /\ pc[p] = "done" /\ req[p].op = "create" /\ attempted[p] /\ ~expired[p]
        /\ outcome[p] \in {SlotBookedError, DatabaseError}
        /\ lock[KeyOf(p)] = NoOwner

\* ===================================================================== C9
\* C9: a call that passed the quota check and could not acquire the lock
\* ends in LockTimeout without having run the insert; SlotAlreadyBooked is
\* only ever reported by a call that ran the insert, so a lock-wait failure
\* is never reported as SlotAlreadyBooked or QuotaExceeded, also not in the
\* message the view shows.
C9_LockTimeoutDistinct ==
    \A p \in Procs :
        (pc[p] = "done" /\ req[p].op = "create")
        => /\ (~attempted[p] /\ outcome[p] # QuotaError)
                => /\ outcome[p].type = "LockError"
                   /\ response[p].message \notin {SlotBookedError.msg, QuotaError.msg}
                   /\ added[p] = {}
           /\ outcome[p] = SlotBookedError => attempted[p]
           /\ outcome[p].type = "LockError" => ~attempted[p]

\* A call gave up waiting for a lock that another call holds.
C9_Witness ==
    \E p \in Procs, q \in Procs :
        /\ pc[p] = "done" /\ req[p].op = "create" /\ outcome[p] = LockTimeoutError
        /\ InCritical(q) /\ lock[KeyOf(p)] = q

\* ==================================================================== C10
\* C10: cancel_booking removes the booking if and only if the acting user is
\* the booking's user or the owner of its resource; any other acting user gets
\* NotAuthorized, answered like a missing booking, and the table is unchanged;
\* a successful cancel removes that one row and no other.
C10_CancelAuthorized ==
    [][\A p \in Procs :
          (pc[p] = "cancel" /\ pc'[p] = "done")
          => IF req[p].user = booking[p].user \/ req[p].user = owner[booking[p].resource]
                THEN /\ bookings' = bookings \ {booking[p]}
                     /\ outcome'[p] = NoExc
                ELSE /\ bookings' = bookings
                     /\ outcome'[p] = PermissionError
                     /\ response'[p] = CancelResponse(NotFound)
      ]_vars

\* The resource's owner, who is not the booking's user, cancelled a booking.
C10_Witness ==
    \E p \in Procs :
        /\ pc[p] = "done" /\ req[p].op = "cancel" /\ outcome[p] = NoExc
        /\ req[p].user # booking[p].user
        /\ req[p].user = owner[booking[p].resource]
        /\ booking[p] \notin bookings

\* ==================================================================== C15
\* C15: slot_starts_local returns exactly the start times open + k * 45 min
\* (k = 0, 1, ...) with open + (k + 1) * 45 min <= close, in ascending order:
\* every returned slot fits, the one after the last does not, and an interval
\* that is inverted or shorter than 45 minutes gives none; 09:00-10:30 gives
\* 09:00 and 09:45.
C15_EnumerationExact ==
    enumerated # NoEnumeration =>
        LET open == Combine(enumerated.day_local, enumerated.start_t)
            close == Combine(enumerated.day_local, enumerated.end_t)
            out == enumerated.out
        IN  /\ \A i \in 1..Len(out) :
                /\ out[i] = open + (i - 1) * SlotLength
                /\ out[i] + SlotLength <= close
            /\ open + (Len(out) + 1) * SlotLength > close
            /\ (close - open < SlotLength) => out = <<>>
            /\ (enumerated.start_t = HM(9, 0) /\ enumerated.end_t = HM(10, 30)) =>
                out = <<Combine(enumerated.day_local, HM(9, 0)),
                        Combine(enumerated.day_local, HM(9, 45))>>

C15_Witness ==
    /\ enumerated.start_t = HM(9, 0)
    /\ enumerated.end_t = HM(10, 30)
    /\ Len(enumerated.out) = 2

\* ================================================================ C12..C18
\* the entries of a listing that fall on one local date
OnDate(out, day_local) ==
    {i \in 1..Len(out) : DateOf(out[i].starts_local) = day_local}

\* how often a local instant occurs in a listing
Occurrences(out, x) == Cardinality({i \in 1..Len(out) : out[i].starts_local = x})

\* open + k * 45 min for every k with open + (k + 1) * 45 min <= close
FittingStarts(day_local, start_t, end_t) ==
    {Combine(day_local, start_t) + k * SlotLength : k \in
        {j \in 0..31 : Combine(day_local, start_t) + (j + 1) * SlotLength
                           <= Combine(day_local, end_t)}}

\* the active rules of the listed resource for the weekday of a date
RulesFor(day_local) ==
    {r \in rules : /\ r.resource = listed.resource
                   /\ r.is_active
                   /\ r.weekday = Weekday(day_local)}

\* the date lies in the listed window
InWindow(day_local) ==
    /\ LocalDate(now) <= day_local
    /\ day_local < LocalDate(now) + listed.days_ahead

\* a local instant that is not before now and not booked for the listed resource
Offerable(x) ==
    /\ to_utc(x) >= now
    /\ ~\E b \in bookings : b.resource = listed.resource /\ b.starts_at_utc = to_utc(x)

\* C12: when a resource has an exception with is_closed = true on a date, no
\* slot of that date is returned, whatever the rules and whatever override
\* times the exception carries.
C12_ClosedDayEmpty ==
    listed # NoListing =>
        \A ex \in exceptions :
            (ex.resource = listed.resource /\ ex.is_closed)
                => OnDate(listed.out, ex.date_local) = {}

C12_Witness ==
    /\ listed.resource = "r1"
    /\ exceptions = {Exception("r1", NextMonday, TRUE, HM(8, 0), HM(8, 45))}
    /\ Rule(1, "r1", 0, HM(9, 0), HM(10, 30), TRUE) \in rules
    /\ OnDate(listed.out, NextMonday) = {}
    /\ OnDate(listed.out, 0) # {}

\* C13: on a date with a non-closed exception that has both override times,
\* every active rule of that weekday is enumerated with the override interval
\* (each offerable start of the override interval appears once per rule) and
\* no returned slot of that date lies outside it; with only one time or none,
\* each rule keeps its own hours.
C13_OverrideApplied ==
    listed # NoListing =>
        \A ex \in exceptions :
            (ex.resource = listed.resource /\ ~ex.is_closed /\ InWindow(ex.date_local)) =>
                LET d == ex.date_local
                    out == listed.out
                    own == UNION {FittingStarts(d, r.start_time_local, r.end_time_local) :
                                    r \in RulesFor(d)}
                IN  IF ex.start_time_local # NoTime /\ ex.end_time_local # NoTime
                    THEN /\ \A i \in OnDate(out, d) :
                                /\ Combine(d, ex.start_time_local) <= out[i].starts_local
                                /\ out[i].starts_local + SlotLength
                                       <= Combine(d, ex.end_time_local)
                         /\ \A x \in FittingStarts(d, ex.start_time_local, ex.end_time_local) :
                                Offerable(x) =>
                                    Occurrences(out, x) = Cardinality(RulesFor(d))
                    ELSE \A x \in own \cup {out[i].starts_local : i \in OnDate(out, d)} :
                            Occurrences(out, x) =
                                IF Offerable(x)
                                THEN Cardinality({r \in RulesFor(d) :
                                        x \in FittingStarts(d, r.start_time_local,
                                                            r.end_time_local)})
                                ELSE 0

C13_Witness ==
    /\ listed.resource = "r1"
    /\ Exception("r1", NextMonday, FALSE, HM(8, 0), HM(10, 15)) \in exceptions
    /\ Cardinality(RulesFor(NextMonday)) = 2
    /\ Occurrences(listed.out, Combine(NextMonday, HM(8, 45))) = 2
    /\ Occurrences(listed.out, Combine(NextMonday, HM(13, 0))) = 0

\* C14: for a future date whose exception is not closed and overrides with
\* 08:00-08:45, exactly one slot, at 08:00, is returned for that date, for any
\* (non-empty) set of active rules of that weekday, when nothing is booked on
\* that instant.
C14_ExactlyOneSlot ==
    listed # NoListing =>
        \A ex \in exceptions :
            ( /\ ex.resource = listed.resource
              /\ ~ex.is_closed
              /\ ex.start_time_local = HM(8, 0) /\ ex.end_time_local = HM(8, 45)
              /\ ex.date_local > LocalDate(now) /\ InWindow(ex.date_local)
              /\ RulesFor(ex.date_local) # {}
              /\ Offerable(Combine(ex.date_local, HM(8, 0))) )
            => /\ Cardinality(OnDate(listed.out, ex.date_local)) = 1
               /\ \A i \in OnDate(listed.out, ex.date_local) :
                      listed.out[i].starts_local = Combine(ex.date_local, HM(8, 0))

\* C16: no returned slot has a UTC instant at which a booking of the listed
\* resource exists, and bookings of other resources remove nothing: every
\* slot the tables give with an empty booking table is returned unless the
\* listed resource itself is booked at its instant.
C16_BookedSlotsRemoved ==
    listed # NoListing =>
        LET out == listed.out
            unbooked == list_available_slots(rules, exceptions, {}, listed.resource,
                                             listed.days_ahead, now)
            taken(t) == \E b \in bookings :
                            b.resource = listed.resource /\ b.starts_at_utc = t
        IN  /\ \A i \in 1..Len(out) : ~taken(out[i].starts_utc)
            /\ \A j \in 1..Len(unbooked) :
                   ~taken(unbooked[j].starts_utc) =>
                       \E i \in 1..Len(out) : out[i] = unbooked[j]

C16_Witness ==
    /\ listed.resource = "r1"
    /\ \E b \in bookings : b.resource = "r1"
                           /\ b.starts_at_utc = to_utc(Combine(NextMonday, HM(9, 0)))
    /\ \E b \in bookings : b.resource = "r2"
                           /\ b.starts_at_utc = to_utc(Combine(NextMonday, HM(9, 45)))
    /\ Occurrences(listed.out, Combine(NextMonday, HM(9, 0))) = 0
    /\ Occurrences(listed.out, Combine(NextMonday, HM(9, 45))) = 1
    /\ Occurrences(listed.out, Combine(0, HM(9, 0))) = 1

\* C17 as stated: every returned slot starts strictly later than now; a slot
\* whose start equals now is never returned.
C17_StrictlyAfterNow ==
    listed # NoListing =>
        \A i \in 1..Len(listed.out) : listed.out[i].starts_utc > now

\* C17: no returned slot starts before now, and a slot whose start equals
\* now is returned when today's rule gives it, no exception is set for today
\* and the resource is not booked at it.
C17_NotBeforeNow ==
    listed # NoListing =>
        /\ \A i \in 1..Len(listed.out) : listed.out[i].starts_utc >= now
        /\ ( /\ listed.days_ahead > 0
             /\ ExceptionOn(exceptions, listed.resource, LocalDate(now)) = NoException
             /\ Offerable(to_local(now))
             /\ \E r \in RulesFor(LocalDate(now)) :
                    to_local(now) \in FittingStarts(LocalDate(now), r.start_time_local,
                                                    r.end_time_local) )
           => Occurrences(listed.out, to_local(now)) >= 1

C17_Witness ==
    /\ listed.resource = "r1"
    /\ now = to_utc(Combine(0, HM(9, 45)))
    /\ Len(listed.out) > 0
    /\ listed.out[1].starts_utc = now
    /\ Occurrences(listed.out, Combine(0, HM(9, 0))) = 0

\* C18: a date contributes slots only if the listed resource has an active
\* rule for its weekday; a resource without active rules gets an empty list,
\* and a non-closed exception with override times on a weekday without an
\* active rule yields nothing.
C18_RuleRequired ==
    listed # NoListing =>
        /\ \A i \in 1..Len(listed.out) :
               RulesFor(DateOf(listed.out[i].starts_local)) # {}
        /\ (~\E r \in rules : r.resource = listed.resource /\ r.is_active)
               => listed.out = <<>>
        /\ \A ex \in exceptions :
               (ex.resource = listed.resource /\ RulesFor(ex.date_local) = {})
                   => OnDate(listed.out, ex.date_local) = {}

C18_Witness ==
    /\ listed.resource = "r1"
    /\ exceptions = {Exception("r1", NextWednesday, FALSE, HM(8, 0), HM(8, 45))}
    /\ Rule(4, "r1", 2, HM(9, 0), HM(9, 45), FALSE) \in rules
    /\ Rule(1, "r1", 0, HM(9, 0), HM(10, 30), TRUE) \in rules
    /\ OnDate(listed.out, NextWednesday) = {}
    /\ OnDate(listed.out, NextMonday) # {}

\* ==================================================================== C11
\* C11: through booking_create, create_booking is called only when the
\* requested instant is not in the past and is among the slots listed for the
\* resource over 21 days at validation time; any other request is answered
\* with a validation error before create_booking runs, and it never attempts
\* or creates a booking.
C11_ValidatedBeforeCreate ==
    [][\A p \in Procs :
        /\ (pc[p] = "idle" /\ pc'[p] # "idle") =>
              LET r == req'[p].resource
                  t == req'[p].starts_at_utc
                  listing == list_available_slots(rules, exceptions, bookings, r, 21, now)
                  ok == /\ t >= now
                        /\ LocalDate(t) < LocalDate(now) + 21
                        /\ \E i \in 1..Len(listing) : listing[i].starts_utc = t
              IN  IF ok THEN req'[p].op = "create"
                  ELSE /\ req'[p].op = "invalid"
                       /\ pc'[p] = "done"
                       /\ outcome'[p].type = "ValidationError"
                       /\ response'[p].message = "Invalid booking data."
                       /\ bookings' = bookings
        /\ req[p].op = "invalid" =>
              /\ pc'[p] = "done"
              /\ added'[p] = {}
              /\ ~attempted'[p]
              /\ booking'[p] = NoBooking
    ]_vars

C11_Witness ==
    /\ req["p1"].op = "create" /\ added["p1"] # {} /\ pc["p1"] = "done"
    /\ req["p2"].op = "invalid" /\ outcome["p2"] = ValidationError("Slot is in the past.")
    /\ bookings # {}

\* ==================================================================== C19
\* C19: the daily count that decides QuotaExceeded is read while the call
\* holds the lock and before the insert, so that no other booking of the same
\* user is committed between the read and the insert: the step that reads
\* the count holds the key, and a committing insert finds the user below the
\* limit.
C19_QuotaReadInsideLock ==
    [][\A p \in Procs :
        /\ (pc[p] = "idle" /\ pc'[p] # "idle" /\ req'[p].op = "create")
              => lock'[_lock_key(req'[p].resource, req'[p].starts_at_utc)] = p
        /\ (added'[p] # added[p])
              => Cardinality(BookingsOnLocalDay(bookings, req[p].user,
                                                LocalDate(req[p].starts_at_utc)))
                     < DailyLimit
    ]_vars

\* C19, second part alone: a committing insert finds its user below the limit.
C19_InsertBelowLimit ==
    [][\A p \in Procs :
        (added'[p] # added[p])
            => Cardinality(BookingsOnLocalDay(bookings, req[p].user,
                                              LocalDate(req[p].starts_at_utc)))
                   < DailyLimit
    ]_vars

\* ==================================================================== C20
\* C20: under fair scheduling every create_booking call that has started
\* ends (with its result or, for a killed process, with the crash), even when
\* the holder of its key was killed inside the lock block: a waiter acquires
\* the key or gives up, and a key left by a crashed holder is freed.
C20_CallsTerminate ==
    /\ \A p \in Procs :
          (pc[p] \in {"acquire", "locked", "exit", "notify"})
              ~> (pc[p] \in {"done", "crashed"})
    /\ \A p \in Procs, k \in LockKeys :
          (lock[k] = p /\ pc[p] = "crashed") ~> (lock[k] # p)

C20_Witness ==
    /\ pc["p1"] = "crashed"
    /\ lock[KeyOf("p1")] = NoOwner
    /\ expired["p1"]
    /\ SameSlot("p2", req["p1"].resource, req["p1"].starts_at_utc)
    /\ pc["p2"] = "done"
    /\ outcome["p2"] = NoExc

\* ==================================================================== C21
\* C21: across list_available_slots, user_daily_booking_count, create_booking
\* and cancel_booking a stored booking's id, resource, user and starts_at_utc
\* never change: the table changes only by a create_booking step adding one
\* row or a cancel_booking step removing one row, and the two reads (the
\* listing; the count read when a create call starts) leave the booking, rule
\* and exception tables as they are.
C21_StoreFrame ==
    [][ /\ \A b \in bookings, c \in bookings' : b.id = c.id => b = c
        /\ bookings' # bookings =>
              \/ \E p \in Procs :
                    /\ pc[p] = "locked" /\ pc'[p] = "exit" /\ req[p].op = "create"
                    /\ \E row \in bookings' \ bookings : bookings' = bookings \cup {row}
              \/ \E p \in Procs :
                    /\ pc[p] = "cancel" /\ pc'[p] = "done" /\ req[p].op = "cancel"
                    /\ \E row \in bookings : bookings' = bookings \ {row}
        /\ listed' # listed =>
              /\ bookings' = bookings
              /\ rules' = rules /\ exceptions' = exceptions
        /\ (\E p \in Procs : pc[p] = "idle" /\ pc'[p] # "idle" /\ req'[p].op = "create") =>
              /\ bookings' = bookings
              /\ rules' = rules /\ exceptions' = exceptions
        /\ rules' = rules /\ exceptions' = exceptions
    ]_vars

C21_Witness ==
    /\ listed # NoListing
    /\ \E b \in bookings : b.id > 2
    /\ ~\E b \in bookings : b.id = 1
    /\ \E b \in bookings : b = Row(2, "bob", "r2", T2)

\* ==================================================================== C22
\* a cancel_booking step of p that deletes its booking b, leaving no other
\* booking on (b.resource, b.starts_at_utc): the instant is no longer booked
\* for the listing, it is listed again when the rules give it, and the
\* holder's count for that local day is one lower
CancelFrees(p) ==
    ( /\ pc[p] = "cancel" /\ pc'[p] = "done" /\ outcome'[p] = NoExc
      /\ booking[p] \in bookings
      /\ ~UniqueViolation(bookings', booking[p].resource, booking[p].starts_at_utc) )
    => LET b == booking[p]
           day_local == LocalDate(b.starts_at_utc)
           free == list_available_slots(rules, exceptions, {}, b.resource, 14, now)
           after == list_available_slots(rules, exceptions, bookings', b.resource, 14, now)
       IN  /\ b.starts_at_utc \notin Booked(bookings', b.resource, now)
           /\ (\E i \in 1..Len(free) : free[i].starts_utc = b.starts_at_utc)
                  => \E j \in 1..Len(after) : after[j].starts_utc = b.starts_at_utc
           /\ user_daily_booking_count(bookings', b.user, day_local)
                  = user_daily_booking_count(bookings, b.user, day_local) - 1

\* a create_booking call for the freed pair (r1, T2): its insert does not
\* meet SlotAlreadyBooked while the pair is free, and the call that stored
\* its row returns it
FollowingCreateSucceeds(p) ==
    LET freed == req[p].op = "create" /\ req[p].resource = "r1"
                 /\ req[p].starts_at_utc = T2
    IN  /\ ( /\ freed /\ pc[p] = "locked" /\ pc'[p] = "exit"
             /\ ~UniqueViolation(bookings, "r1", T2) )
            => exc'[p] # SlotBookedError
        /\ (freed /\ pc[p] # "done" /\ pc'[p] = "done" /\ added'[p] # {})
            => /\ outcome'[p] = NoExc
               /\ booking'[p] \in bookings'

\* C22: after a successful cancel_booking of a booking b, with no other
\* booking on (b.resource, b.starts_at_utc), the instant is no longer
\* filtered out of the listing as booked, the former holder's daily count is
\* one lower, and a following create_booking for that pair by a user under
\* quota succeeds instead of failing with SlotAlreadyBooked.
C22_CancelFreesSlot ==
    [][\A p \in Procs : CancelFrees(p) /\ FollowingCreateSucceeds(p)]_vars

====
